---- MODULE Spec2Model ----
(***************************************************************************)
(* Model of latexfogel's sandboxed render orchestration (latex.rs,        *)
(* docker.rs, typst.rs) and of the Discord handlers with their two caches *)
(* (discord.rs).                                                          *)
(*                                                                        *)
(* A render call is a record `job` that the step operators below advance  *)
(* one await point at a time; the environment's answer at each await      *)
(* (docker pull / run / kill results, pipe writes, the container's exit)  *)
(* is an argument of the step.                                            *)
(***************************************************************************)
EXTENDS Integers, Sequences, FiniteSets, TLC

\* ------------------------------------------------------------------ bounds
MaxLen == 3          \* longest container stdout (bytes) explored by SpecRender
MaxByte == 2         \* byte values explored are 0..MaxByte

Byte == 0..MaxByte

RECURSIVE SeqsUpTo(_, _)
SeqsUpTo(S, n) ==
    IF n = 0 THEN {<<>>}
    ELSE LET shorter == SeqsUpTo(S, n - 1)
         IN  shorter \cup {Append(s, b) : s \in {t \in shorter : Len(t) = n - 1}, b \in S}

Stdouts == SeqsUpTo(Byte, MaxLen)

\* ------------------------------------------------------------------ latex.rs
\* ImageWidth::name
name(width) == IF width = "Wide" THEN "wide" ELSE "normal"

\* the deadline of both runners, in seconds
Deadline == 15

\* the container name of a job: fixed role prefix, then the correlation id
ContainerName(kind, context_id) ==
    IF kind = "latex" THEN <<"slave-", context_id>> ELSE <<"slave-typst-", context_id>>

\* anyhow errors: `kind` names the bail!/`?` the error comes from, `text` is
\* error.to_string() as a sequence of parts: <<"lit", s>> a literal of the
\* format string, <<"cap", stream>> the captured output of a docker command,
\* <<"stdout", bytes>> bytes of the container's stdout, <<"status", n>>.
Err(kind, text) == [tag |-> "Err", kind |-> kind, text |-> text]
Ok(png, overrun_hbox) == [tag |-> "Ok", png |-> png, overrun_hbox |-> overrun_hbox]
NoResult == [tag |-> "None"]

IoError(what) == Err(what, << <<"lit", "os error">> >>)

\* a call that has not started
NoJob == [pc |-> "none"]

\* an argument of the docker command line: an option (it starts with "--")
\* or a plain word
Opt(text) == [dash |-> TRUE, text |-> text]
Word(text) == [dash |-> FALSE, text |-> text]

\* the arguments after the image: "renderer" for latex, and for typst what
\* render_typst gave the DockerCommand with .arg(...)
CommandArgs(kind) ==
    IF kind = "latex" THEN <<Word("renderer")>> ELSE <<Word("render-typst")>>

NewJob(kind, context_id, source, width) ==
    [pc |-> "pull", kind |-> kind, ctx |-> context_id, source |-> source,
     width |-> width, args |-> CommandArgs(kind), trace |-> <<>>, stdin |-> <<>>,
     container |-> "none", rendered |-> NoResult, result |-> NoResult]

\* a call that starts over once when it ended in an error
ReturnOrRetry(j, r) ==
    IF r.tag = "Err" /\ Len(j.trace) < 8 THEN [j EXCEPT !.pc = "pull", !.stdin = <<>>]
    ELSE [j EXCEPT !.pc = "done", !.result = r]

\* the call returns r: nothing of the call runs after it
Return(j, r) == [j EXCEPT !.pc = "done", !.result = r]

\* pull_renderer_image / pull_docker_image; res in PullResults
PullResults == {"ok", "nonzero", "ioerr"}
\* a pull whose result is dropped: the call goes on to the spawn
PullStepUnchecked(j, res) ==
    [j EXCEPT !.trace = Append(@, <<"pull", res>>), !.pc = "spawn"]
PullStep(j, res) ==
    LET t == [j EXCEPT !.trace = Append(@, <<"pull", res>>)]
    IN  CASE res = "ok" -> [t EXCEPT !.pc = "spawn"]
          [] res = "ioerr" -> Return(t, IoError("PullFailure"))
          [] OTHER ->
               Return(t, Err("PullFailure",
                   << <<"lit", IF j.kind = "latex" THEN "Could not pull renderer image."
                                                   ELSE "Failed to pull runner image">>,
                      <<"lit", "Stdout:">>, <<"cap", "pull.stdout">>,
                      <<"lit", "Stderr:">>, <<"cap", "pull.stderr">> >>))

\* the fixed docker run flags of spawn_renderer_process / spawn_runner, in
\* the order they are given ("--name" stands for --name=<container name>)
RunFlags(kind) ==
    <<IF kind = "latex" THEN "--pids-limit=2000" ELSE "--pids-limit=5000",
      IF kind = "latex" THEN "--memory=100M" ELSE "--memory=500M",
      "--cpus=1", "--interactive=true", "--read-only", "--network=none",
      "--cap-drop=all", "--tmpfs=/tmp", "--name", "--rm">>

\* a command line that gives the caller's arguments before the image
RunArgvArgsFirst(kind, args) ==
    [k \in 1..Len(RunFlags(kind)) |-> Opt(RunFlags(kind)[k])] \o args \o <<Word("image")>>

\* the command line after `docker run`: the fixed flags, the image, then the
\* arguments of the command in the container
RunArgv(kind, args) ==
    [k \in 1..Len(RunFlags(kind)) |-> Opt(RunFlags(kind)[k])] \o <<Word("image")>> \o args

\* the newline byte: the end of the mode line on stdin, and what println! ends
\* the engine's description with
Newline == 10
Space == 32

\* str::as_bytes of the mode tokens
as_bytes(str) ==
    IF str = "wide" THEN <<119, 105, 100, 101>> ELSE <<110, 111, 114, 109, 97, 108>>

\* the mode token written without its newline
StdinChunksUnterminated(j) ==
    IF j.kind = "latex" THEN << as_bytes(name(j.width)), j.source >> ELSE << j.source >>

\* what the runner writes to the container's stdin, chunk by chunk:
\* format!("{}\n", width.name()) then the source for latex, the source alone
\* for a DockerCommand
StdinChunks(j) ==
    IF j.kind = "latex" THEN << as_bytes(name(j.width)) \o <<Newline>>, j.source >>
    ELSE << j.source >>

\* the bytes of the chunks the pipe took, in order
RECURSIVE Flatten(_)
Flatten(chunks) == IF chunks = <<>> THEN <<>> ELSE Head(chunks) \o Flatten(Tail(chunks))

\* Stdin::read_line: the bytes up to the first newline, the newline included
\* (all of the input when it holds none)
read_line(input) ==
    LET ends == {k \in 1..Len(input) : input[k] = Newline}
    IN  IF ends = {} THEN input
        ELSE SubSeq(input, 1, CHOOSE k \in ends : \A l \in ends : k <= l)

\* str::trim: leading and trailing whitespace removed
trim(value) ==
    LET solid == {k \in 1..Len(value) : value[k] \notin {Newline, Space}}
    IN  IF solid = {} THEN <<>>
        ELSE SubSeq(value, CHOOSE k \in solid : \A l \in solid : k <= l,
                           CHOOSE k \in solid : \A l \in solid : k >= l)

\* TryFrom<&str> for ImageWidth
try_from(value) ==
    LET t == trim(value)
    IN  IF t = as_bytes("wide") THEN "Wide"
        ELSE IF t = as_bytes("normal") THEN "Normal"
        ELSE "Err"

\* what the renderer in the container reads from its stdin: latex::run_renderer
\* the mode line, then the rest as the source; typst::run_renderer all of it
RendererInput(kind, input) ==
    IF kind = "latex"
    THEN LET line == read_line(input)
         IN  [width |-> try_from(line), latex |-> SubSeq(input, Len(line) + 1, Len(input))]
    ELSE [width |-> "none", latex |-> input]

\* Command::spawn(); res in BOOLEAN
SpawnStep(j, ok) ==
    LET t == [j EXCEPT !.trace = Append(@, <<"run", ContainerName(j.kind, j.ctx),
                                             RunArgv(j.kind, j.args)>>)]
    IN  IF ok THEN [t EXCEPT !.pc = "write", !.container = "running"]
        ELSE Return(t, IoError("SpawnFailure"))

\* a write whose result is dropped: the call goes on as if the pipe took it
WriteStepUnchecked(j, ok) ==
    LET chunk == StdinChunks(j)[Len(j.stdin) + 1]
    IN  [j EXCEPT !.trace = Append(@, <<"write", chunk, ok>>),
                  !.stdin = Append(@, chunk),
                  !.pc = IF Len(j.stdin) + 1 = Len(StdinChunks(j)) THEN "wait" ELSE "write"]

\* one write_all(...).await? on the child's stdin
WriteStep(j, ok) ==
    LET chunk == StdinChunks(j)[Len(j.stdin) + 1]
        t == [j EXCEPT !.trace = Append(@, <<"write", chunk, ok>>)]
    IN  IF ~ok THEN Return(t, IoError("WriteFailure"))
        ELSE [t EXCEPT !.stdin = Append(@, chunk),
                       !.pc = IF Len(j.stdin) + 1 = Len(StdinChunks(j)) THEN "wait" ELSE "write"]

\* Decode without the length check: the indexing panics on a short output
DecodeUnchecked(stdout) ==
    IF Len(stdout) < 2 THEN [tag |-> "Panic"]
    ELSE IF stdout[1] = 1 THEN Err("Engine", << <<"stdout", Tail(stdout)>> >>)
    ELSE Ok(Tail(Tail(stdout)), stdout[2] # 0)

\* the decoding of a zero-exit stdout in render_latex
Decode(stdout) ==
    IF Len(stdout) < 3 THEN Err("Framing", << <<"lit", "Renderer output not long enough">> >>)
    ELSE IF stdout[1] = 1 THEN Err("Engine", << <<"stdout", Tail(stdout)>> >>)
    ELSE Ok(Tail(Tail(stdout)), stdout[2] # 0)

\* what DockerCommand::run and render_typst return for a zero exit
TypstOutput(stdout) == Ok(stdout, FALSE)

\* the decoding without the check of the exit status
AfterExitUnchecked(kind, status, stdout) ==
    IF kind = "latex" THEN Decode(stdout) ELSE TypstOutput(stdout)

\* the code after the wait: exit status check, then the decoding
AfterExit(kind, status, stdout) ==
    IF status # 0
    THEN IF kind = "latex"
         THEN Err("NonZeroExit",
                  << <<"lit", "Renderer exited with non-zero exit code">>, <<"status", status>> >>)
         ELSE Err("NonZeroExit",
                  << <<"lit", "Runner died with">>, <<"status", status>>,
                     <<"lit", "Stdout:">>, <<"stdout", stdout>>,
                     <<"lit", "Stderr:">>, <<"cap", "run.stderr">> >>)
    ELSE IF kind = "latex" THEN Decode(stdout) ELSE TypstOutput(stdout)

\* what latex::run_renderer writes to stdout for the result r of render_to_png
run_renderer(r) ==
    IF r.tag = "Ok" THEN <<0, IF r.overrun_hbox THEN 1 ELSE 0>> \o r.png
    ELSE <<1>> \o r.msg \o <<Newline>>

\* the exit of a container whose renderer ran to its end on result r:
\* latex::run_renderer always exits 0, typst::run_renderer exits 1 on an error
RendererExit(kind, r) ==
    IF kind = "latex" THEN <<"exit", 0, run_renderer(r)>>
    ELSE IF r.tag = "Ok" THEN <<"exit", 0, r.png>> ELSE <<"exit", 1, <<>>>>

\* timeout(15 s, child.wait_with_output()): ev is <<"exit", status, stdout>>
\* (the container exited by itself), <<"ran", r>> (its renderer ran to its end
\* on r), <<"deadline">> or <<"waiterr">>; the trace keeps the Output the
\* wait returned as <<"exit", status, stdout>>
WaitStep(j, ev) ==
    LET t == [j EXCEPT !.trace = Append(@, <<"wait", Deadline>>)]
    IN  CASE ev[1] = "exit" ->
               Return([t EXCEPT !.container = "exited", !.trace = Append(@, ev)],
                      AfterExit(j.kind, ev[2], ev[3]))
          [] ev[1] = "ran" ->
               LET in == RendererInput(j.kind, Flatten(j.stdin))
                   read == <<"read", in.width, in.latex>>
               IN  IF in.width = "Err"
                   THEN \* "could not parse width": the renderer panics
                        Return([t EXCEPT !.container = "exited",
                                         !.trace = @ \o <<read, <<"exit", 101, <<>>>>>>],
                               AfterExit(j.kind, 101, <<>>))
                   ELSE LET x == RendererExit(j.kind, ev[2])
                        IN  Return([t EXCEPT !.container = "exited", !.rendered = ev[2],
                                             !.trace = @ \o <<read, x>>],
                                   AfterExit(j.kind, x[2], x[3]))
          [] ev[1] = "deadline" -> [t EXCEPT !.pc = "kill", !.trace = Append(@, <<"deadline">>)]
          [] OTHER -> Return(t, IoError("WaitFailure"))

\* kill_renderer_process / kill_runner, then bail!("Timeout reached")
KillResults == {"ok", "nonzero", "ioerr"}
KillStep(j, res) ==
    LET t == [j EXCEPT !.trace = Append(@, <<"kill", ContainerName(j.kind, j.ctx), res>>)]
    IN  CASE res = "ok" ->
               Return([t EXCEPT !.container = "exited"],
                      Err("Timeout", << <<"lit", "Timeout reached">> >>))
          [] res = "ioerr" -> Return(t, IoError("KillFailure"))
          [] OTHER ->
               Return(t, IF j.kind = "latex"
                         THEN Err("KillFailure", << <<"lit", "could not kill renderer">> >>)
                         ELSE Err("KillFailure",
                                  << <<"lit", "Failed to kill runner">>,
                                     <<"lit", "Stdout:">>, <<"cap", "kill.stdout">>,
                                     <<"lit", "Stderr:">>, <<"cap", "kill.stderr">> >>))

ExitCodes == {0, 1}

\* the result of render_to_png inside the container
EngineFailed(msg) == [tag |-> "Failed", msg |-> msg]

\* the events the wait can end with: a container that exits with any status
\* and any stdout of S, one whose renderer ran to its end on a result of R,
\* the deadline, an error of the wait itself
WaitEvents(S, R) ==
    {<<"exit", st, out>> : st \in ExitCodes, out \in S} \cup {<<"ran", r>> : r \in R}
        \cup {<<"deadline">>, <<"waiterr">>}

\* a call that starts the kill without awaiting it and returns at once
JobStepsKillDetached(j, E) ==
    CASE j.pc = "pull"  -> {PullStep(j, r) : r \in E.pull}
      [] j.pc = "spawn" -> {SpawnStep(j, ok) : ok \in E.spawn}
      [] j.pc = "write" -> {WriteStep(j, ok) : ok \in E.write}
      [] j.pc = "wait"  -> {WaitStep(j, ev) : ev \in E.events}
      [] j.pc = "kill"  -> {Return(j, Err("Timeout", << <<"lit", "Timeout reached">> >>))}
      [] OTHER -> {}

\* every way environment E lets job j take its next step; E gives the answers
\* the docker commands, the pipe and the container may give
JobSteps(j, E) ==
    CASE j.pc = "pull"  -> {PullStep(j, r) : r \in E.pull}
      [] j.pc = "spawn" -> {SpawnStep(j, ok) : ok \in E.spawn}
      [] j.pc = "write" -> {WriteStep(j, ok) : ok \in E.write}
      [] j.pc = "wait"  -> {WaitStep(j, ev) : ev \in E.events}
      [] j.pc = "kill"  -> {KillStep(j, r) : r \in E.kill}
      [] OTHER -> {}

\* every state job j can reach by taking steps until its pc is in `stop`
RECURSIVE RunUntil(_, _, _)
RunUntil(j, stop, E) ==
    IF j.pc \in stop THEN {j}
    ELSE UNION {RunUntil(k, stop, E) : k \in JobSteps(j, E)}

\* ------------------------------------------------------------------ state
NumInteractions == 3     \* commands and button clicks the bot handles

Users == {"U1", "U2"}
UserMessages == {1}                       \* ids of the messages users wrote
Interactions == 1..NumInteractions
MessageIds == 1..(Cardinality(UserMessages) + NumInteractions)

VARIABLES
    job,             \* SpecRender: the one render call under test
    rendered_cache,  \* BotContext.rendered_cache, a set of <<message id, response id>>
    widen_cache,     \* BotContext.widen_cache, a set of <<message id, WidenInfo>>
    msgs,            \* the channel: message id -> message
    nextMsg,         \* the id Discord gives the next message
    hs,              \* the handler task of each interaction
    deleteAttempts,  \* ids a delete request was sent to Discord for
    locks            \* SpecCache: the task holding the Mutex of each cache (0: free)

vars == <<job, rendered_cache, widen_cache, msgs, nextMsg, hs, deleteAttempts, locks>>
botVars == <<rendered_cache, widen_cache, msgs, nextMsg, hs, deleteAttempts, locks>>

\* ------------------------------------------------------------------ discord.rs
DELETE_CUSTOM_ID == "delete"
WIDEN_CUSTOM_ID == "widen"

\* a button is its custom id: the action's prefix, then the owner's id
button_delete(owner) == <<DELETE_CUSTOM_ID, owner>>
button_wider(owner) == <<WIDEN_CUSTOM_ID, owner>>

WidenInfo(owner, latex) == [owner |-> owner, latex |-> latex]

\* HashMap::get(...).copied()/.cloned(): the empty set is None, {v} is Some(v)
rendered_response_id(cache, message_id) == {e[2] : e \in {x \in cache : x[1] = message_id}}
widen_info(cache, message_id) == {e[2] : e \in {x \in cache : x[1] = message_id}}

\* an insert that keeps the entry the key had
register_keeping_old(cache, message_id, response_id) ==
    cache \cup {<<message_id, response_id>>}

\* HashMap::insert: the entry replaces the one the key had
register_rendered_response_id(cache, message_id, response_id) ==
    {e \in cache : e[1] # message_id} \cup {<<message_id, response_id>>}
register_widen_info(cache, message_id, info) ==
    {e \in cache : e[1] # message_id} \cup {<<message_id, info>>}

\* Mutex::new of the two caches: no task holds them
Unlocked == [rendered_cache |-> 0, widen_cache |-> 0]

NoMessage == [state |-> "none"]
UserMessage(content) ==
    [state |-> "live", content |-> content, buttons |-> {}, body |-> <<"text">>,
     inbound |-> 0, registered |-> FALSE]
\* a reply of the bot to a command on message `inbound`: no text content;
\* `registered` tells whether rendered_cache ever held the reply
BotMessage(inbound, body, buttons) ==
    [state |-> "live", content |-> <<>>, buttons |-> buttons, body |-> body,
     inbound |-> inbound, registered |-> FALSE]

Idle == [pc |-> "idle"]
\* a handler that returned (Ok or Err), and one that panicked
Returned == [pc |-> "done", end |-> "returned"]
Panicked == [pc |-> "done", end |-> "panicked"]

\* a running handler: of which kind, for which user on which message, the
\* render call it awaits, the result of the call, the response it sent
Handler(kind, user, msg) ==
    [pc |-> "start", kind |-> kind, user |-> user, msg |-> msg, job |-> NoJob,
     result |-> NoResult, resp |-> 0]

\* the text of the message the users wrote
SourceText == <<7>>

\* what docker and the containers do to the bot's renders
BotRenders == {Ok(<<9>>, FALSE), Ok(<<9>>, TRUE), EngineFailed(<<8>>)}
BotEnv ==
    [pull |-> {"ok", "nonzero"}, spawn |-> {TRUE}, write |-> {TRUE},
     events |-> {<<"ran", r>> : r \in BotRenders},
     kill |-> {"ok"}]

Init ==
    /\ job = NoJob
    /\ rendered_cache = {}
    /\ widen_cache = {}
    /\ msgs = [m \in MessageIds |->
                 IF m \in UserMessages THEN UserMessage(SourceText) ELSE NoMessage]
    /\ nextMsg = Cardinality(UserMessages) + 1
    /\ hs = [i \in Interactions |-> Idle]
    /\ deleteAttempts = {}
    /\ locks = Unlocked

\* interactions reach the bot in the order of their ids
CanStart(i) == hs[i].pc = "idle" /\ (IF i = 1 THEN TRUE ELSE hs[i - 1].pc # "idle")

\* http.delete_message / Message::delete on message m: it fails on a message
\* that is gone
DeleteMessage(ms, m) ==
    [x \in MessageIds |->
       IF x = m /\ ms[x].state = "live" THEN [ms[x] EXCEPT !.state = "deleted"] ELSE ms[x]]

\* a render call that takes the id of the message as its correlation id
RenderCallByMessage(i, h, source) ==
    CASE h.kind = "tex" -> NewJob("latex", h.msg, source, "Normal")
      [] h.kind = "typst" -> NewJob("typst", h.msg, source, "Normal")
      [] OTHER -> NewJob("latex", h.msg, source, "Wide")

\* the arguments of the render call of handler h for interaction i: the
\* correlation id is the id of the interaction (ctx.id(), cmd.id)
RenderCall(i, h, source) ==
    CASE h.kind = "tex" -> NewJob("latex", i, source, "Normal")
      [] h.kind = "typst" -> NewJob("typst", i, source, "Normal")
      [] OTHER -> NewJob("latex", i, source, "Wide")

\* the handler when its render call has reached state j: awaiting the
\* container, or holding the result
Rendering(h, j) ==
    IF j.pc = "done" THEN [h EXCEPT !.pc = "rendered", !.job = j, !.result = j.result]
    ELSE [h EXCEPT !.pc = "running", !.job = j]

\* a handler that returns the error of a failed delete of the prior response
GoesOnOnlyIfDeleted(ms, prior) == \A r \in prior : ms[r].state = "live"

\* `let _ = ...delete_message(..).await`: the handler goes on whatever the
\* delete of the prior response returned
GoesOnAfterDelete(ms, prior) == TRUE

\* tex_context_menu / typst_context_menu from the invocation to the await of
\* the render: the lookup of the previous response, its delete (the result
\* ignored), ctx.defer(), the pull and the spawn of the render call
CommandStart(i, kind, user, m) ==
    /\ CanStart(i)
    /\ msgs[m].state = "live"
    /\ LET prior == rendered_response_id(rendered_cache, m)
       IN  /\ deleteAttempts' = deleteAttempts \cup prior
           /\ msgs' = IF prior = {} THEN msgs
                      ELSE DeleteMessage(msgs, CHOOSE r \in prior : TRUE)
           /\ \E deferred \in BOOLEAN :
                IF ~GoesOnAfterDelete(msgs, prior) \/ ~deferred
                THEN hs' = [hs EXCEPT ![i] = Returned]
                ELSE \E j \in RunUntil(RenderCall(i, Handler(kind, user, m),
                                                  msgs[m].content),
                                       {"wait", "done"}, BotEnv) :
                       hs' = [hs EXCEPT ![i] = Rendering(Handler(kind, user, m), j)]
    /\ UNCHANGED <<job, locks, rendered_cache, widen_cache, nextMsg>>

\* a reply that offers the widen button on every image
CommandReplyAlwaysWider(kind, user, result) ==
    IF result.tag = "Err"
    THEN [body |-> <<"embed", result.text>>, components |-> {}]
    ELSE [body |-> <<"image", result.png>>,
          components |-> {button_delete(user), button_wider(user)}]

\* the reply a command builds from the result of its render
CommandReply(kind, user, result) ==
    IF result.tag = "Err"
    THEN [body |-> <<"embed", result.text>>, components |-> {}]
    ELSE [body |-> <<"image", result.png>>,
          components |-> IF kind = "tex" /\ result.overrun_hbox
                         THEN {button_delete(user), button_wider(user)} ELSE {}]

\* the replies wolfram sends: the image parts as attachments when the full
\* response was asked for, an embed with the short answer otherwise; neither
\* sets components
WolframReply(full_response) ==
    [body |-> IF full_response THEN <<"images">> ELSE <<"embed", <<<<"lit", "answer">>>>>>,
     components |-> {}]

\* a framework configured without reply_callback
reply_callback_unset(author, reply) == reply

\* reply_callback of start_bot
reply_callback(author, reply) ==
    IF reply.components = {} THEN [reply EXCEPT !.components = {button_delete(author)}]
    ELSE reply

\* the results the render call of handler h can return
RenderResults(h) ==
    IF h.pc = "rendered" THEN {h.result}
    ELSE {j.result : j \in RunUntil(h.job, {"done"}, BotEnv)}

\* a handler that goes on to the registration without the `?` checks
AfterSendUnchecked(h, result, response_id, ok) ==
    [h EXCEPT !.pc = "register", !.job = NoJob, !.result = result, !.resp = response_id]

\* the handler after `ctx.send(..).await?` and `handle.message().await?`: it
\* holds the id of the response when both were Ok, it has returned the error
\* otherwise
AfterSend(h, result, response_id, ok) ==
    IF ok
    THEN [h EXCEPT !.pc = "register", !.job = NoJob, !.result = result,
                   !.resp = response_id]
    ELSE Returned

\* the rest of the render call of a command (the wait, the kill, the
\* decoding), then ctx.send(...).await? and handle.message().await?
CommandSend(i) ==
    /\ hs[i].pc \in {"running", "rendered"}
    /\ hs[i].kind \in {"tex", "typst"}
    /\ \E result \in RenderResults(hs[i]), sent \in BOOLEAN, fetched \in BOOLEAN :
         LET reply == reply_callback(hs[i].user, CommandReply(hs[i].kind, hs[i].user, result))
         IN  IF ~sent
             THEN /\ hs' = [hs EXCEPT ![i] = AfterSend(@, result, nextMsg, FALSE)]
                  /\ UNCHANGED <<msgs, nextMsg>>
             ELSE /\ msgs' = [msgs EXCEPT ![nextMsg] =
                                BotMessage(hs[i].msg, reply.body, reply.components)]
                  /\ nextMsg' = nextMsg + 1
                  /\ hs' = [hs EXCEPT ![i] = AfterSend(@, result, nextMsg, fetched)]
    /\ UNCHANGED <<job, locks, rendered_cache, widen_cache, deleteAttempts>>

\* register_rendered_response_id(message.id, response.id)
CommandRegister(i) ==
    /\ hs[i].pc = "register"
    /\ rendered_cache' = register_rendered_response_id(rendered_cache, hs[i].msg, hs[i].resp)
    /\ hs' = [hs EXCEPT ![i] =
                IF @.kind = "tex" /\ @.result.tag = "Ok" /\ @.result.overrun_hbox
                THEN [@ EXCEPT !.pc = "register_widen"] ELSE Returned]
    /\ msgs' = [msgs EXCEPT ![hs[i].resp].registered = TRUE]
    /\ UNCHANGED <<job, locks, widen_cache, nextMsg, deleteAttempts>>

\* the key tex_context_menu registers the WidenInfo under
WidenKey(h) == h.msg

\* register_widen_info of tex_context_menu
CommandRegisterWiden(i) ==
    /\ hs[i].pc = "register_widen"
    /\ widen_cache' = register_widen_info(widen_cache, WidenKey(hs[i]),
                                          WidenInfo(hs[i].user, msgs[hs[i].msg].content))
    /\ hs' = [hs EXCEPT ![i] = Returned]
    /\ UNCHANGED <<job, locks, rendered_cache, msgs, nextMsg, deleteAttempts>>

\* the ephemeral answers to a click
answer_unknown_button == "I don't remember that button. Was it before a restart?"
answer_action_not_allowed == "You clicked a button."

\* a click that was answered with `answer` and nothing else
Answered(answer) == [pc |-> "done", end |-> "returned", answer |-> answer]

\* WidenGate answering a missing entry like a foreign one
WidenGateMissingIsForeign(info, user) ==
    IF info = {} THEN "not_allowed"
    ELSE IF (CHOOSE x \in info : TRUE).owner # user THEN "not_allowed"
    ELSE "render"

\* the gate of handle_widen_button_click: the entry looked up, then its owner
\* compared with the clicking user
WidenGate(info, user) ==
    IF info = {} THEN "unknown"
    ELSE IF (CHOOSE x \in info : TRUE).owner # user THEN "not_allowed"
    ELSE "render"

\* handle_widen_button_click from the click on button b of message m to the
\* await of the render
WidenClick(i, user, m, b) ==
    /\ CanStart(i)
    /\ msgs[m].state = "live"
    /\ b[1] = WIDEN_CUSTOM_ID
    /\ b \in msgs[m].buttons
    /\ LET info == widen_info(widen_cache, m)
           gate == WidenGate(info, user)
       IN  CASE gate = "unknown" ->
                  hs' = [hs EXCEPT ![i] = Answered(answer_unknown_button)]
             [] gate = "not_allowed" ->
                  hs' = [hs EXCEPT ![i] = Answered(answer_action_not_allowed)]
             [] OTHER ->
                  \E deferred \in BOOLEAN :
                    IF ~deferred THEN hs' = [hs EXCEPT ![i] = Returned]
                    ELSE \E j \in RunUntil(RenderCall(i, Handler("widen", user, m),
                                                      (CHOOSE x \in info : TRUE).latex),
                                           {"wait", "done"}, BotEnv) :
                           hs' = [hs EXCEPT ![i] =
                                    IF j.pc = "done" /\ j.result.tag = "Err" THEN Panicked
                                    ELSE Rendering(Handler("widen", user, m), j)]
    /\ UNCHANGED <<job, locks, rendered_cache, widen_cache, msgs, nextMsg, deleteAttempts>>

\* an edit that replaces the image and leaves the buttons
WidenEditImageOnly(message, user, png) == [message EXCEPT !.body = <<"image", png>>]

\* an edit that brings a deleted response back
WidenEditReviving(message, user, png) ==
    [message EXCEPT !.state = "live", !.buttons = {button_delete(user)},
                    !.body = <<"image", png>>]

\* the EditMessage of handle_widen_button_click: the delete button of the
\* clicking user as the only component, the new image as the only attachment;
\* the edit of a message that is gone fails and the handler returns the error
WidenEdit(message, user, png) ==
    IF message.state # "live" THEN message
    ELSE [message EXCEPT !.buttons = {button_delete(user)}, !.body = <<"image", png>>]

\* the rest of handle_widen_button_click: the result of the render unwrapped,
\* then cmd.get_response(ctx).await?.edit(...)
WidenFinish(i) ==
    /\ hs[i].pc \in {"running", "rendered"}
    /\ hs[i].kind = "widen"
    /\ \E result \in RenderResults(hs[i]) :
         IF result.tag = "Err"
         THEN /\ hs' = [hs EXCEPT ![i] = Panicked]
              /\ UNCHANGED msgs
         ELSE /\ hs' = [hs EXCEPT ![i] = Returned]
              /\ msgs' = [msgs EXCEPT ![hs[i].msg] = WidenEdit(@, hs[i].user, result.png)]
    /\ UNCHANGED <<job, locks, rendered_cache, widen_cache, nextMsg, deleteAttempts>>

\* handle_delete_button_click on button b of message m
DeleteClick(i, user, m, b) ==
    /\ CanStart(i)
    /\ msgs[m].state = "live"
    /\ b[1] = DELETE_CUSTOM_ID
    /\ b \in msgs[m].buttons
    /\ LET author_id == b[2]
       IN  IF author_id = user
           THEN /\ msgs' = DeleteMessage(msgs, m)
                /\ deleteAttempts' = deleteAttempts \cup {m}
                /\ hs' = [hs EXCEPT ![i] = Returned]
           ELSE /\ hs' = [hs EXCEPT ![i] = Answered(answer_action_not_allowed)]
                /\ UNCHANGED <<msgs, deleteAttempts>>
    /\ UNCHANGED <<job, locks, rendered_cache, widen_cache, nextMsg>>

Buttons == {button_delete(u) : u \in Users} \cup {button_wider(u) : u \in Users}

Next ==
    \E i \in Interactions :
        \/ \E kind \in {"tex", "typst"}, user \in Users, m \in MessageIds :
             CommandStart(i, kind, user, m)
        \/ CommandSend(i)
        \/ CommandRegister(i)
        \/ CommandRegisterWiden(i)
        \/ \E user \in Users, m \in MessageIds, b \in Buttons : WidenClick(i, user, m, b)
        \/ WidenFinish(i)
        \/ \E user \in Users, m \in MessageIds, b \in Buttons : DeleteClick(i, user, m, b)

Spec == Init /\ [][Next]_vars

\* the handlers one after the other: an interaction arrives when no handler
\* is running
NoneInFlight == \A k \in Interactions : hs[k].pc \in {"idle", "done"}

NextSeq ==
    \E i \in Interactions :
        \/ \E kind \in {"tex", "typst"}, user \in Users, m \in MessageIds :
             NoneInFlight /\ CommandStart(i, kind, user, m)
        \/ CommandSend(i)
        \/ CommandRegister(i)
        \/ CommandRegisterWiden(i)
        \/ \E user \in Users, m \in MessageIds, b \in Buttons :
             NoneInFlight /\ WidenClick(i, user, m, b)
        \/ WidenFinish(i)
        \/ \E user \in Users, m \in MessageIds, b \in Buttons :
             NoneInFlight /\ DeleteClick(i, user, m, b)

SpecSeq == Init /\ [][NextSeq]_vars

\* the bot after two commands of user u: the tex command on the user's
\* message, whose render overflowed, and the tex command on the response to
\* it, whose render overflowed too; both handlers have returned and three
\* more interactions follow
AfterTwoCommands(u) ==
    /\ job = NoJob
    /\ rendered_cache = {<<1, 2>>, <<2, 3>>}
    /\ widen_cache = {<<1, WidenInfo(u, SourceText)>>, <<2, WidenInfo(u, <<>>)>>}
    /\ msgs = [m \in MessageIds |->
                 CASE m = 1 -> UserMessage(SourceText)
                   [] m \in {2, 3} ->
                        [BotMessage(m - 1, <<"image", <<9>>>>,
                                    {button_delete(u), button_wider(u)})
                           EXCEPT !.registered = TRUE]
                   [] OTHER -> NoMessage]
    /\ nextMsg = 4
    /\ hs = [i \in Interactions |-> Idle]
    /\ deleteAttempts = {}
    /\ locks = Unlocked

InitWarm == \E u \in Users : AfterTwoCommands(u)

\* the commands that started and have not sent their response yet
Unsent == {k \in Interactions : hs[k].pc \in {"running", "rendered"}
                                   /\ hs[k].kind \in {"tex", "typst"}}

\* Next, with the commands bounded by the message ids left
NextWarm ==
    \E i \in Interactions :
        \/ \E kind \in {"tex", "typst"}, user \in Users, m \in MessageIds :
             /\ nextMsg + Cardinality(Unsent) \in MessageIds
             /\ CommandStart(i, kind, user, m)
        \/ CommandSend(i)
        \/ CommandRegister(i)
        \/ CommandRegisterWiden(i)
        \/ \E user \in Users, m \in MessageIds, b \in Buttons : WidenClick(i, user, m, b)
        \/ WidenFinish(i)
        \/ \E user \in Users, m \in MessageIds, b \in Buttons : DeleteClick(i, user, m, b)

SpecWarm == InitWarm /\ [][NextWarm]_vars

\* ------------------------------------------------------------------ one render call
\* the results of render_to_png explored by SpecRender
Renders ==
    {Ok(png, ov) : png \in Stdouts, ov \in BOOLEAN} \cup {EngineFailed(m) : m \in Stdouts}

\* every answer of docker, the pipe and the container
FullEnv ==
    [pull |-> PullResults, spawn |-> BOOLEAN, write |-> BOOLEAN,
     events |-> WaitEvents(Stdouts, Renders), kill |-> KillResults]

Sources == {<<>>, <<7>>, <<Newline>>, <<Newline, 7>>, <<7, Newline, 7>>}
Widths == {"Normal", "Wide"}
JobIds == {1, 2}

\* the arguments a caller gives a DockerCommand with .arg(...)
ArgLists ==
    {<<Word("render-typst")>>, <<Opt("--privileged"), Word("render-typst")>>,
     <<Opt("--network=host"), Opt("--memory=8G")>>}

\* one call of render_latex / DockerCommand::run, alone
InitRender ==
    /\ job \in {NewJob("latex", c, s, w) : c \in JobIds, s \in Sources, w \in Widths}
             \cup {[NewJob("typst", c, s, "Normal") EXCEPT !.args = a] :
                      c \in JobIds, s \in Sources, a \in ArgLists}
    /\ rendered_cache = {}
    /\ widen_cache = {}
    /\ msgs = [m \in MessageIds |-> NoMessage]
    /\ nextMsg = 1
    /\ hs = [i \in Interactions |-> Idle]
    /\ deleteAttempts = {}
    /\ locks = Unlocked

Pull == job.pc = "pull" /\ job' \in JobSteps(job, FullEnv) /\ UNCHANGED botVars
Spawn == job.pc = "spawn" /\ job' \in JobSteps(job, FullEnv) /\ UNCHANGED botVars
Write == job.pc = "write" /\ job' \in JobSteps(job, FullEnv) /\ UNCHANGED botVars
Wait == job.pc = "wait" /\ job' \in JobSteps(job, FullEnv) /\ UNCHANGED botVars
Kill == job.pc = "kill" /\ job' \in JobSteps(job, FullEnv) /\ UNCHANGED botVars

NextRender == Pull \/ Spawn \/ Write \/ Wait \/ Kill

SpecRender == InitRender /\ [][NextRender]_vars

\* ------------------------------------------------------------------ the cache locks
MaxOps == 2          \* cache operations each task calls in SpecCache

\* the cache each method of BotContext locks
CacheOf(op) ==
    IF op \in {"rendered_response_id", "register_rendered_response_id"}
    THEN "rendered_cache" ELSE "widen_cache"

\* the calls of the four methods: the method, the message id, and the
\* response id or the WidenInfo to register
NoInfo == WidenInfo("", <<>>)
CacheCalls ==
    {[op |-> "rendered_response_id", key |-> 1, resp |-> 0, info |-> NoInfo]}
      \cup {[op |-> "register_rendered_response_id", key |-> 1, resp |-> r, info |-> NoInfo] :
               r \in {2, 3}}
      \cup {[op |-> "widen_info", key |-> 1, resp |-> 0, info |-> NoInfo]}
      \cup {[op |-> "register_widen_info", key |-> 1, resp |-> 0,
              info |-> WidenInfo(u, SourceText)] : u \in Users}

\* a task outside the cache methods (at any other await of its handler) after
\* n calls, holding what its last lookups returned
Awaiting(n, resp, info) == [pc |-> "await", ops |-> n, resp |-> resp, info |-> info]

\* a MutexGuard that is kept when the method returns
ReleaseNever(ls, cache) == ls

\* lock().await returning the MutexGuard to task t, and the drop of the guard
\* at the end of the statement
Acquire(ls, cache, t) == [ls EXCEPT ![cache] = t]
Release(ls, cache) == [ls EXCEPT ![cache] = 0]

InitCache ==
    /\ job = NoJob
    /\ rendered_cache = {}
    /\ widen_cache = {}
    /\ msgs = [m \in MessageIds |-> NoMessage]
    /\ nextMsg = 1
    /\ hs = [t \in Interactions |-> Awaiting(0, {}, {})]
    /\ deleteAttempts = {}
    /\ locks = Unlocked

\* task t calls a method of BotContext and reaches its lock().await
CacheCall(t, c) ==
    /\ hs[t].pc = "await" /\ hs[t].ops < MaxOps
    /\ hs' = [hs EXCEPT ![t] = [pc |-> "lock", ops |-> @.ops, resp |-> @.resp,
                                 info |-> @.info, call |-> c]]
    /\ UNCHANGED <<job, locks, rendered_cache, widen_cache, msgs, nextMsg, deleteAttempts>>

\* lock().await completes: the Mutex was free
CacheLock(t) ==
    /\ hs[t].pc = "lock"
    /\ locks[CacheOf(hs[t].call.op)] = 0
    /\ locks' = Acquire(locks, CacheOf(hs[t].call.op), t)
    /\ hs' = [hs EXCEPT ![t].pc = "locked"]
    /\ UNCHANGED <<job, rendered_cache, widen_cache, msgs, nextMsg, deleteAttempts>>

\* the get or insert under the guard, the drop of the guard, the return
CacheAccess(t) ==
    /\ hs[t].pc = "locked"
    /\ LET c == hs[t].call
           n == hs[t].ops + 1
       IN  /\ locks' = Release(locks, CacheOf(c.op))
           /\ CASE c.op = "rendered_response_id" ->
                    /\ hs' = [hs EXCEPT ![t] =
                                Awaiting(n, rendered_response_id(rendered_cache, c.key), @.info)]
                    /\ UNCHANGED <<rendered_cache, widen_cache>>
                [] c.op = "register_rendered_response_id" ->
                    /\ rendered_cache' =
                         register_rendered_response_id(rendered_cache, c.key, c.resp)
                    /\ hs' = [hs EXCEPT ![t] = Awaiting(n, @.resp, @.info)]
                    /\ UNCHANGED widen_cache
                [] c.op = "widen_info" ->
                    /\ hs' = [hs EXCEPT ![t] =
                                Awaiting(n, @.resp, widen_info(widen_cache, c.key))]
                    /\ UNCHANGED <<rendered_cache, widen_cache>>
                [] OTHER ->
                    /\ widen_cache' = register_widen_info(widen_cache, c.key, c.info)
                    /\ hs' = [hs EXCEPT ![t] = Awaiting(n, @.resp, @.info)]
                    /\ UNCHANGED rendered_cache
    /\ UNCHANGED <<job, msgs, nextMsg, deleteAttempts>>

NextCache ==
    \E t \in Interactions :
        \/ \E c \in CacheCalls : CacheCall(t, c)
        \/ CacheLock(t)
        \/ CacheAccess(t)

SpecCache == InitCache /\ [][NextCache]_vars

\* ------------------------------------------------------------------ the properties
\* the three outcomes of a render call
Outcomes == {"Success", "EngineError", "InfrastructureError"}
InfrastructureKinds ==
    {"PullFailure", "SpawnFailure", "WriteFailure", "WaitFailure", "Timeout",
     "KillFailure", "NonZeroExit", "Framing"}
IsOutcome(o, r) ==
    CASE o = "Success" -> r.tag = "Ok"
      [] o = "EngineError" -> r.tag = "Err" /\ r.kind = "Engine"
      [] OTHER -> r.tag = "Err" /\ r.kind \in InfrastructureKinds

\* C1: a render call that has returned has exactly one outcome among Success,
\* EngineError and InfrastructureError, and a call that has not returned has
\* no outcome yet and can take a step, whatever docker, the pipe and the
\* container answered.
C1_ExactlyOneOutcome ==
    /\ job.pc = "done" => Cardinality({o \in Outcomes : IsOutcome(o, job.result)}) = 1
    /\ job.pc # "done" => job.result = NoResult /\ JobSteps(job, FullEnv) # {}

\* a latex call that decoded an engine error from a zero exit
C1_Witness ==
    job.pc = "done" /\ job.kind = "latex" /\ IsOutcome("EngineError", job.result)

\* the positions of the docker commands of a call
TraceAt(j, what) == {k \in 1..Len(j.trace) : j.trace[k][1] = what}

\* C2: when the deadline elapsed before the container exited, the call has
\* issued exactly one kill, addressed to the name given at the spawn, and it
\* returns the Timeout error, whatever the kill command answered.
C2_TimeoutKillsOnceAndReportsTimeout ==
    job.pc = "done" /\ TraceAt(job, "deadline") # {} =>
        /\ Cardinality(TraceAt(job, "kill")) = 1
        /\ \A k \in TraceAt(job, "kill"), r \in TraceAt(job, "run") :
             job.trace[k][2] = job.trace[r][2]
        /\ job.result.tag = "Err" /\ job.result.kind = "Timeout"

\* C3: the output run_renderer writes for Success{png, overflow}, decoded by
\* render_latex after the zero exit, is a PngResult with the same bytes and
\* the same flag.
C3_SuccessRoundTrip ==
    job.pc = "done" /\ job.kind = "latex" /\ job.rendered.tag = "Ok" =>
        job.result = Ok(job.rendered.png, job.rendered.overrun_hbox)

\* C4: a delete or widen button whose identifier encodes another user than
\* the one who clicks is answered with the not-allowed response, and the
\* click changes neither the messages nor the caches.
C4_OnlyOwnerActs ==
    [][\A i \in Interactions, u \in Users, m \in MessageIds, b \in Buttons :
         (DeleteClick(i, u, m, b) \/ WidenClick(i, u, m, b)) /\ b[2] # u =>
             /\ hs'[i] = Answered(answer_action_not_allowed)
             /\ UNCHANGED <<rendered_cache, widen_cache, msgs>>]_vars

\* C5: a widen click on a message the widen cache has no entry for is
\* answered with the "I don't remember that button" response and the handler
\* ends there: it starts no render call and changes no message and no cache.
C5_UnknownCorrelation ==
    [][\A i \in Interactions :
         hs[i] = Idle /\ hs'[i] # Idle =>
             \A u \in Users, m \in MessageIds, b \in Buttons :
                 WidenClick(i, u, m, b) /\ widen_info(widen_cache, m) = {} =>
                     /\ hs'[i] = Answered(answer_unknown_button)
                     /\ UNCHANGED <<rendered_cache, widen_cache, msgs,
                                    nextMsg>>]_vars

\* a widen click was answered with the "I don't remember" response
C5_Witness == \E i \in Interactions : hs[i] = Answered(answer_unknown_button)

\* C6: when tex_context_menu registers the WidenInfo of an overflowed render,
\* the lookup of the id of the response it sent returns that entry: the
\* invoking user as owner and the source of the message.
C6_WidenEntryUnderResponseId ==
    [][\A i \in Interactions :
         CommandRegisterWiden(i) =>
             widen_info(widen_cache', hs[i].resp)
                 = {WidenInfo(hs[i].user, msgs[hs[i].msg].content)}]_vars

\* C7: with the handlers one after the other, the registration of a response
\* leaves exactly one entry for the inbound message, holding the newest
\* message of the channel, and the response the entry held before has had
\* its delete attempted by then.
C7_ReRenderSupersedes ==
    [][\A i \in Interactions :
         CommandRegister(i) =>
             /\ {e \in rendered_cache' : e[1] = hs[i].msg} = {<<hs[i].msg, hs[i].resp>>}
             /\ hs[i].resp = nextMsg - 1
             /\ rendered_response_id(rendered_cache, hs[i].msg) \subseteq deleteAttempts]_vars

\* two commands on message 1, the second registered after the delete of the
\* response of the first
C7_Witness ==
    /\ hs[3] = Idle
    /\ rendered_cache = {<<1, 3>>}
    /\ msgs[2].registered /\ msgs[2].inbound = 1 /\ msgs[2].state = "deleted"
    /\ 2 \in deleteAttempts

\* C8: when no command on an inbound message is running, every response that
\* was registered for the message, except the one the entry holds, has had a
\* delete attempted.
C8_NoStaleResponse ==
    \A m \in MessageIds :
        (\A i \in Interactions : hs[i].pc \in {"idle", "done"} \/ hs[i].msg # m) =>
            \A r \in MessageIds :
                (/\ msgs[r].state # "none"
                 /\ msgs[r].inbound = m
                 /\ msgs[r].registered
                 /\ r \notin rendered_response_id(rendered_cache, m)) => r \in deleteAttempts

\* a text that holds captured output of a docker command or of the container
Leaks(text) == \E k \in 1..Len(text) : text[k][1] \in {"cap", "stdout"}
\* the description of an EngineError: the container's stdout after the status byte
EngineDescription(text) == Len(text) = 1 /\ text[1][1] = "stdout"

\* C9: an error text the bot shows holds no captured stdout or stderr, unless
\* it is the description of an EngineError.
C9_NoDiagnosticsShown ==
    \A r \in MessageIds :
        msgs[r].state # "none" /\ msgs[r].body[1] = "embed" /\ Leaks(msgs[r].body[2]) =>
            EngineDescription(msgs[r].body[2])

\* C10: no handler that calls a render ends in a panic.
C10_RenderFailureReported == \A i \in Interactions : hs[i] # Panicked

\* the Output the wait of call j returned: <<"exit", status, stdout>>
ExitOf(j) == {j.trace[k] : k \in TraceAt(j, "exit")}

\* C11: after a zero exit render_latex reports the framing violation exactly
\* when stdout is shorter than 2 bytes; a stdout of 2 bytes or more that
\* starts with 0x00 is the Success of its flag byte and its (possibly empty)
\* image, one that starts with 0x01 is the EngineError of the text after it.
C11_FramingExactlyBelowTwoBytes ==
    job.pc = "done" /\ job.kind = "latex" =>
        \A x \in ExitOf(job) :
            x[2] = 0 =>
                LET stdout == x[3]
                    framing == job.result.tag = "Err" /\ job.result.kind = "Framing"
                IN  /\ framing <=> Len(stdout) < 2
                    /\ Len(stdout) >= 2 /\ stdout[1] = 0 =>
                          job.result = Ok(SubSeq(stdout, 3, Len(stdout)), stdout[2] # 0)
                    /\ Len(stdout) >= 2 /\ stdout[1] = 1 =>
                          job.result = Err("Engine",
                                           << <<"stdout", SubSeq(stdout, 2, Len(stdout))>> >>)

\* C12: when the engine in the container failed with description m, the call
\* that decodes what run_renderer wrote returns the EngineError whose text is
\* m: the bytes after the status byte, nothing added, nothing removed, also
\* for the empty m.
C12_EngineErrorRoundTrip ==
    job.pc = "done" /\ job.kind = "latex" /\ job.rendered.tag = "Failed" =>
        job.result = Err("Engine", << <<"stdout", job.rendered.msg>> >>)

\* C13: what spawn_renderer_process wrote to the stdin of a latex container is
\* read back by run_renderer as the mode and the source text of the call, for
\* both modes and for every source: empty, starting with a newline, holding
\* newlines.
C13_InputFramingRoundTrip ==
    job.kind = "latex" =>
        \A k \in TraceAt(job, "read") :
            job.trace[k] = <<"read", job.width, job.source>>

\* a Wide call whose source starts with a newline was read by the renderer
C13_Witness ==
    /\ job.pc = "done" /\ job.kind = "latex" /\ job.width = "Wide"
    /\ job.source = <<Newline, 7>>
    /\ TraceAt(job, "read") # {}
    /\ job.rendered.tag = "Ok"

\* C14: whether a delete or widen click is refused as not allowed is decided
\* by the owner id in the button's identifier and the clicking user alone: it
\* is refused exactly when the two differ, whatever the two caches hold.
C14_DecisionIgnoresCaches ==
    [][\A i \in Interactions :
         hs[i] = Idle /\ hs'[i] # Idle =>
             \A u \in Users, m \in MessageIds, b \in Buttons :
                 DeleteClick(i, u, m, b) \/ WidenClick(i, u, m, b) =>
                     (hs'[i] = Answered(answer_action_not_allowed) <=> b[2] # u)]_vars

\* C15: a message the widen cache holds a WidenInfo for exists and carries a
\* widen button, also after it was widened and after it was deleted.
C15_WidenEntryHasWidenControl ==
    \A e \in widen_cache :
        /\ msgs[e[1]].state = "live"
        /\ \E b \in msgs[e[1]].buttons : b[1] = WIDEN_CUSTOM_ID

\* the calls whose docker pull failed (non-zero exit, or docker not started)
PullFailed(j) == \E k \in TraceAt(j, "pull") : j.trace[k][2] # "ok"

\* C16: a call whose docker pull failed has returned an InfrastructureError,
\* and it has spawned no container, written no input and issued no kill.
C16_PullFailureAbortsBeforeSpawn ==
    PullFailed(job) =>
        /\ job.pc = "done" /\ IsOutcome("InfrastructureError", job.result)
        /\ TraceAt(job, "run") = {} /\ TraceAt(job, "write") = {}
        /\ TraceAt(job, "kill") = {}
        /\ job.container = "none" /\ job.stdin = <<>>

\* a runner call (typst) whose pull exited non-zero has returned
C16_Witness ==
    /\ job.pc = "done" /\ job.kind = "typst"
    /\ job.trace = << <<"pull", "nonzero">> >>
    /\ job.result.tag = "Err" /\ job.result.kind = "PullFailure"

\* the handlers whose render call has a container running
InFlight == {i \in Interactions : hs[i].pc = "running"}
\* the name call j gave its container at the spawn, and the name its kill
\* would address if the deadline passed now
SpawnedName(j) == {j.trace[k][2] : k \in TraceAt(j, "run")}
KillTarget(j) == LET t == KillStep(j, "ok").trace IN t[Len(t)][2]

DockerOptions(argv) ==
    LET words == {k \in 1..Len(argv) : ~argv[k].dash}
        image == IF words = {} THEN Len(argv) + 1
                 ELSE CHOOSE k \in words : \A l \in words : k <= l
    IN  {argv[k].text : k \in 1..(image - 1)}

\* C18: every container is started with a process-count limit, a memory
\* limit, a CPU limit, a read-only root, no network, all capabilities dropped,
\* a tmpfs scratch directory, a name and auto-remove, and docker is given no
\* other option than the fixed ones, whatever the request, the mode, the
\* source and the arguments the caller gave.
C18_SandboxFlagsAlways ==
    \A k \in TraceAt(job, "run") :
        LET options == DockerOptions(job.trace[k][3])
        IN  /\ options \cap {"--pids-limit=2000", "--pids-limit=5000"} # {}
            /\ options \cap {"--memory=100M", "--memory=500M"} # {}
            /\ {"--cpus=1", "--read-only", "--network=none", "--cap-drop=all",
                 "--tmpfs=/tmp", "--name", "--rm"} \subseteq options
            /\ Cardinality(options) = 10 /\ "--interactive=true" \in options

\* a container was started by a caller that gave option-like arguments
C18_Witness ==
    /\ job.kind = "typst" /\ job.container = "running"
    /\ job.args = <<Opt("--network=host"), Opt("--memory=8G")>>
    /\ TraceAt(job, "run") # {}

\* C20: render_latex returns an EngineError only when the container exited
\* with status zero and its stdout starts with the byte 0x01; after a
\* non-zero exit it returns an InfrastructureError whatever stdout holds.
C20_EngineErrorOnlyAfterZeroExit ==
    job.pc = "done" /\ job.kind = "latex" =>
        /\ IsOutcome("EngineError", job.result) =>
              \E x \in ExitOf(job) : x[2] = 0 /\ Len(x[3]) >= 1 /\ x[3][1] = 1
        /\ \A x \in ExitOf(job) :
              x[2] # 0 => IsOutcome("InfrastructureError", job.result)

\* a container that wrote a whole engine-error frame and exited with status 1
C20_Witness ==
    /\ job.pc = "done" /\ job.kind = "latex"
    /\ <<"exit", 1, <<1, 2, 2>>>> \in ExitOf(job)
    /\ job.result.tag = "Err" /\ job.result.kind = "NonZeroExit"

\* the tasks inside a cache method: waiting for the Mutex, or holding it
Contending(c) == {t \in Interactions : hs[t].pc \in {"lock", "locked"}
                                         /\ CacheOf(hs[t].call.op) = c}

\* C19: under every interleaving of tasks calling the four cache methods, a
\* Mutex is held only by one task that is inside a method of that cache
\* (never by a task at another await of its handler), a cache changes only
\* in the step of the task holding its Mutex, which releases it in the same
\* step, and whenever a task waits for a Mutex some task can take a step.
C19_CacheLocksShortAndAtomic ==
    /\ [](\A c \in DOMAIN locks :
            /\ locks[c] # 0 => hs[locks[c]].pc = "locked" /\ locks[c] \in Contending(c)
            /\ \A t \in Contending(c) : hs[t].pc = "locked" => locks[c] = t
            /\ Contending(c) # {} =>
                  \E t \in Contending(c) : ENABLED (CacheLock(t) \/ CacheAccess(t)))
    /\ [][/\ rendered_cache' # rendered_cache =>
               /\ locks.rendered_cache # 0 /\ locks'.rendered_cache = 0
               /\ hs'[locks.rendered_cache].pc = "await"
               /\ widen_cache' = widen_cache /\ locks'.widen_cache = locks.widen_cache
          /\ widen_cache' # widen_cache =>
               /\ locks.widen_cache # 0 /\ locks'.widen_cache = 0
               /\ hs'[locks.widen_cache].pc = "await"
               /\ rendered_cache' = rendered_cache
               /\ locks'.rendered_cache = locks.rendered_cache]_vars

\* one task holds the Mutex of the rendered cache while another waits for it
\* and the third holds the Mutex of the widen cache, both caches filled
C19_Witness ==
    /\ locks.rendered_cache = 1 /\ locks.widen_cache = 3
    /\ hs[2].pc = "lock" /\ CacheOf(hs[2].call.op) = "rendered_cache"
    /\ rendered_cache # {} /\ widen_cache # {}

\* C21: render_latex returns a PngResult only when the first byte of stdout
\* is the success status 0x00; an output that starts with a byte other than
\* 0x00 and 0x01 is not decoded as an overflow flag and an image.
C21_SuccessOnlyForStatusZero ==
    job.pc = "done" /\ job.kind = "latex" /\ job.result.tag = "Ok" =>
        \A x \in ExitOf(job) : x[2] = 0 /\ Len(x[3]) >= 1 /\ x[3][1] = 0

\* a render result that is the Success with overflow
Overflowed(result) == result.tag = "Ok" /\ result.overrun_hbox

\* C22: the response to a render that succeeded without overflow or that ended
\* in an EngineError or an InfrastructureError carries no widen button, its
\* handler never comes to register a WidenInfo, and the widen cache changes
\* only in the step of a tex handler whose render overflowed.
C22_NoWidenWithoutOverflow ==
    /\ [](\A i \in Interactions :
            hs[i].pc \in {"register", "register_widen"} /\ ~Overflowed(hs[i].result) =>
                /\ hs[i].pc = "register"
                /\ \A b \in msgs[hs[i].resp].buttons : b[1] # WIDEN_CUSTOM_ID)
    /\ [][widen_cache' # widen_cache =>
             \E i \in Interactions :
                 /\ hs[i].pc = "register_widen" /\ hs'[i] = Returned
                 /\ hs[i].kind = "tex" /\ Overflowed(hs[i].result)]_vars

\* the response to an EngineError was sent: an embed with the delete button
C22_Witness ==
    /\ hs[1].pc = "register" /\ hs[1].kind = "tex"
    /\ hs[1].result.tag = "Err" /\ hs[1].result.kind = "Engine"
    /\ msgs[hs[1].resp].buttons = {button_delete(hs[1].user)}

\* C23: a widen click accepted for the owner starts one render call: latex,
\* Wide, of the source the WidenInfo of the clicked response holds, under the
\* id of the click interaction, with one container; when the call succeeded
\* the response shows the new image and has the delete button of the clicker
\* as its only control.
C23_WidenIsOneFreshWideRender ==
    /\ [](\A i \in Interactions :
            hs[i].pc \in {"running", "rendered"} /\ hs[i].kind = "widen" =>
                /\ hs[i].job.kind = "latex" /\ hs[i].job.width = "Wide"
                /\ hs[i].job.ctx = i
                /\ Cardinality(TraceAt(hs[i].job, "pull")) = 1
                /\ Cardinality(TraceAt(hs[i].job, "run")) <= 1
                /\ hs[i].pc = "running" => Cardinality(TraceAt(hs[i].job, "run")) = 1)
    /\ [][\A i \in Interactions :
             /\ hs[i] = Idle /\ hs'[i].pc \in {"running", "rendered"}
                   /\ hs'[i].kind = "widen" =>
                     {hs'[i].job.source}
                         = {x.latex : x \in widen_info(widen_cache, hs'[i].msg)}
             /\ WidenFinish(i) /\ hs'[i] = Returned /\ msgs[hs[i].msg].state = "live" =>
                     /\ msgs'[hs[i].msg].buttons = {button_delete(hs[i].user)}
                     /\ \E r \in RenderResults(hs[i]) :
                           r.tag = "Ok" /\ msgs'[hs[i].msg].body = <<"image", r.png>>]_vars

\* the render of an accepted widen click is in flight
C23_Witness ==
    \E i \in Interactions :
        /\ hs[i].pc = "running" /\ hs[i].kind = "widen"
        /\ msgs[hs[i].msg].state = "live"
        /\ button_wider(hs[i].user) \in msgs[hs[i].msg].buttons

\* what the users see of message m
Visible(ms, m) == <<ms[m].state, ms[m].content, ms[m].body, ms[m].buttons>>

C25_OneContainerNoRetry ==
    /\ Cardinality(TraceAt(job, "pull")) <= 1
    /\ Cardinality(TraceAt(job, "run")) <= 1
    /\ Cardinality(TraceAt(job, "write")) <= Len(StdinChunks(job))
    /\ \A k \in TraceAt(job, "exit") \cup TraceAt(job, "deadline") :
          \A l \in (k + 1)..Len(job.trace) :
              job.trace[l][1] \notin {"pull", "run", "write", "wait"}

\* a call that ended in the Timeout error after one pull, one spawn, one kill
C25_Witness ==
    /\ job.pc = "done" /\ job.result.tag = "Err" /\ job.result.kind = "Timeout"
    /\ Cardinality(TraceAt(job, "pull")) = 1 /\ Cardinality(TraceAt(job, "run")) = 1
    /\ Cardinality(TraceAt(job, "kill")) = 1

\* the calls one of whose writes to the container's stdin failed
WriteFailedAt(j) == {k \in TraceAt(j, "write") : ~j.trace[k][3]}

\* C26: when the wait with its deadline starts, every part of the input has
\* been written, in order: the mode line, then the source; when a write
\* failed the call has returned an error right then, without a wait, a kill
\* or any decoding after it.
C26_InputWrittenBeforeWait ==
    /\ TraceAt(job, "wait") # {} =>
          /\ job.stdin = StdinChunks(job)
          /\ \A w \in TraceAt(job, "write"), k \in TraceAt(job, "wait") :
                w < k /\ job.trace[w][3]
    /\ \A k \in WriteFailedAt(job) :
          /\ k = Len(job.trace)
          /\ job.pc = "done" /\ job.result.tag = "Err"
          /\ job.result.kind = "WriteFailure"
          /\ job.rendered = NoResult

\* the mode line was written and the write of the source failed
C26_Witness ==
    /\ job.kind = "latex" /\ job.source = <<7, Newline, 7>>
    /\ Len(job.stdin) = 1 /\ WriteFailedAt(job) # {}
    /\ job.pc = "done"

\* C27: a call whose deadline passed has not returned while its kill command
\* is outstanding; when it has returned, the kill addressed to its container
\* has completed (with whatever result) after the deadline, as the last
\* thing the call did.
C27_KillAwaitedBeforeReturn ==
    \A d \in TraceAt(job, "deadline") :
        /\ job.pc # "done" => job.pc = "kill" /\ job.result = NoResult
        /\ job.pc = "done" =>
              /\ job.trace[Len(job.trace)][1] = "kill" /\ d < Len(job.trace)
              /\ job.trace[Len(job.trace)][2] = ContainerName(job.kind, job.ctx)
              /\ job.trace[Len(job.trace)][3] \in KillResults

\* a call returned after its kill command had exited non-zero
C27_Witness ==
    /\ job.pc = "done" /\ TraceAt(job, "deadline") # {}
    /\ \E k \in TraceAt(job, "kill") : job.trace[k][3] = "nonzero"

\* the commands that would find a registered prior response that is gone
FindsPriorGone(m) ==
    /\ msgs[m].state = "live"
    /\ \E r \in rendered_response_id(rendered_cache, m) : msgs[r].state # "live"

\* C28: a command on a message whose registered response is already gone
\* (the delete of it fails) goes on as it does after a delete that worked:
\* it can defer and start every render call a command can start, and in the
\* step the failed delete changes no message and ends no handler early.
C28_FailedDeleteIgnored ==
    \A i \in Interactions, m \in MessageIds :
        CanStart(i) /\ FindsPriorGone(m) =>
            \A kind \in {"tex", "typst"}, user \in Users :
                \A j \in RunUntil(RenderCall(i, Handler(kind, user, m), msgs[m].content),
                                  {"wait", "done"}, BotEnv) :
                    ENABLED (/\ CommandStart(i, kind, user, m)
                             /\ hs'[i] = Rendering(Handler(kind, user, m), j)
                             /\ msgs' = msgs)

\* the third interaction, a command on message 1, found the response 2 gone,
\* went on and sent the response 3, which it is about to register
C28_Witness ==
    /\ hs[3].pc = "register" /\ hs[3].msg = 1 /\ hs[3].resp = 3
    /\ rendered_cache = {<<1, 2>>}
    /\ msgs[2].state = "deleted" /\ msgs[3].state = "live"

\* the entry a registration of response r for message m leaves the cache with
WithEntry(cache, m, r) == {e \in cache : e[1] # m} \cup {<<m, r>>}

\* C29: the rendered cache changes only by the entry of a handler that has
\* sent its response, image or error embed, and holds its id; the widen
\* cache changes only after that registration; a handler whose send failed
\* ends without changing a cache.
C29_EntryOnlyAfterSend ==
    [][/\ rendered_cache' # rendered_cache =>
            \E i \in Interactions :
                /\ hs[i].pc = "register" /\ hs'[i].pc # "register"
                /\ msgs[hs[i].resp].state # "none"
                /\ msgs[hs[i].resp].inbound = hs[i].msg
                /\ rendered_cache' = WithEntry(rendered_cache, hs[i].msg, hs[i].resp)
       /\ widen_cache' # widen_cache =>
            \E i \in Interactions :
                /\ hs[i].pc = "register_widen" /\ hs'[i].pc # "register_widen"
                /\ msgs[hs[i].resp].state # "none"
                /\ rendered_response_id(rendered_cache, hs[i].msg) # {}
       /\ \A i \in Interactions :
            /\ hs[i].pc \in {"running", "rendered"} /\ hs'[i] # hs[i]
            /\ hs[i].kind \in {"tex", "typst"} /\ nextMsg' = nextMsg
            => /\ hs'[i] = Returned
               /\ UNCHANGED <<rendered_cache, widen_cache>>]_vars

\* the response to a failed render, an embed, has been sent and registered
C29_Witness ==
    \E e \in rendered_cache :
        /\ msgs[e[2]].state = "live" /\ msgs[e[2]].registered
        /\ msgs[e[2]].body[1] = "embed"

\* C30: a call that returns after it spawned its container leaves the
\* container exited or with a kill by name issued for it, by every path:
\* the exit, the deadline, a failed write to stdin, an error of the wait.
C30_NoContainerLeftRunning ==
    job.pc = "done" /\ TraceAt(job, "run") # {} /\ job.container # "none" =>
        \/ job.container = "exited"
        \/ \E k \in TraceAt(job, "kill") : job.trace[k][2] = ContainerName(job.kind, job.ctx)

====
